---- MODULE Spec2Model ----
(***************************************************************************)
(* Senda escrow interaction layer: the client program store, the server    *)
(* routers (senda router, transaction router), the off-chain bookkeeping   *)
(* tables and the on-ledger escrow program they all talk to.               *)
(***************************************************************************)
EXTENDS Integers, Sequences, FiniteSets, TLC

\* ------------------------------------------------------------------ bounds
MaxDeposits == 2
MaxRows == 2
MaxSeed == 1
MaxArg == 2
RandomRange == 2

\* ------------------------------------------------------------ identities
Parties == {"S", "R"}
Keys == Parties \cup {"T"}
NoKey == "none"
FeePayer == "F"
Mints == {"usdc", "usdt"}
Policies == {"sender", "receiver", "both"}

\* --------------------------------------------------- address derivation
\* an escrow address derived from the two keys in a canonical order
findEscrowPDAUnordered(sender, receiver) ==
    LET rank(k) == CASE k = "S" -> 1 [] k = "R" -> 2 [] OTHER -> 3
    IN  IF rank(sender) <= rank(receiver) THEN <<"escrow", sender, receiver>>
        ELSE <<"escrow", receiver, sender>>

\* findProgramAddressSync over the seeds "escrow", sender, receiver: the keys have
\* a fixed width, so the hashed bytes are the ordered triple
findEscrowPDA(sender, receiver) == <<"escrow", sender, receiver>>

findDepositRecordPDA(escrowPda, depositIdx) == <<"deposit", escrowPda, depositIdx>>

EscrowPdas == {findEscrowPDA(a, b) : a \in Parties, b \in Parties} \ {findEscrowPDA(a, a) : a \in Parties}

RecordPdas == {findDepositRecordPDA(e, i) : e \in EscrowPdas, i \in 0..(MaxDeposits - 1)}

AllAtas(sender, receiver) == {<<o, m>> : o \in {sender, receiver}, m \in Mints}

NoRecord == [state |-> "None", policy |-> "none", depositor |-> NoKey, counterparty |-> NoKey]

VARIABLES
    escrowAcct,   \* ledger: escrow PDA -> [exists, depositCount]
    depositRec,   \* ledger: deposit-record PDA -> record
    atas,         \* ledger: existing associated token accounts <<owner, mint>>
    dbRows,       \* bookkeeping: transaction + depositRecord rows
    store,        \* client program store: [program, wallet]
    procs,        \* server createDeposit calls in flight
    lastCall,     \* the last completed call and what it returned
    dbEscrows,    \* bookkeeping: ids of the rows of the escrow table
    depositStore, \* client deposit store, and where its submitDeposit stands
    calc,         \* the last two applications of the pure helpers: <<earlier, later>>
    adapter       \* the KeypairWalletAdapter's fields and how its last call ended

ledgerVars == <<escrowAcct, depositRec, atas>>
programVars == <<escrowAcct, depositRec, atas, dbRows, store, procs, lastCall, dbEscrows, depositStore>>
\* what no ledger, store or server operation touches
pureVars == <<calc, adapter>>
vars == <<escrowAcct, depositRec, atas, dbRows, store, procs, lastCall, dbEscrows, depositStore, calc,
          adapter>>

\* ------------------------------------------- keypair wallet adapter
\* null for a keypair that is not set; a keypair carries its public key
NoKeypair == <<>>
Keypair(key) == <<"keypair", key>>
KeypairPublicKey(keypair) == keypair[2]
Keypairs == {Keypair(k) : k \in Parties}

\* new KeypairWalletAdapter({name, publicKey, keypair}); NoKey stands for a null publicKey,
\* op and ok for the last method called and whether it returned rather than threw
NewKeypairWalletAdapter(publicKey, keypair) ==
    [publicKey |-> publicKey, keypair |-> keypair, connecting |-> FALSE,
     connected |-> keypair # NoKeypair, op |-> "constructor", ok |-> TRUE,
     emitted |-> <<>>]

\* a method of the adapter has returned (ok) or thrown, having emitted these events
AdapterCall(fields, op, ok, emitted) ==
    [fields EXCEPT !.op = op, !.ok = ok, !.emitted = emitted]

setKeypair(keypair) ==
    /\ UNCHANGED <<programVars, calc>>
    /\ adapter' = AdapterCall([adapter EXCEPT !.keypair = keypair,
                                              !.publicKey = KeypairPublicKey(keypair),
                                              !.connected = TRUE],
                              "setKeypair", TRUE,
                              IF ~adapter.connected THEN <<"connect">>
                              ELSE <<"disconnect", "connect">>)

\* connect: nothing when connected or connecting; without a keypair it throws
\* KeypairNotSetError; the finally block clears connecting
connect ==
    /\ UNCHANGED <<programVars, calc>>
    /\ IF adapter.connected \/ adapter.connecting
       THEN adapter' = AdapterCall([adapter EXCEPT !.connecting = FALSE], "connect", TRUE, <<>>)
       ELSE IF adapter.keypair = NoKeypair
       THEN adapter' = AdapterCall([adapter EXCEPT !.connecting = FALSE],
                                   "connect", FALSE, <<"error">>)
       ELSE adapter' = AdapterCall([adapter EXCEPT
                                       !.publicKey = KeypairPublicKey(adapter.keypair),
                                       !.connected = TRUE, !.connecting = FALSE],
                                   "connect", TRUE, <<"connect">>)

disconnect ==
    /\ UNCHANGED <<programVars, calc>>
    /\ IF ~adapter.connected
       THEN adapter' = AdapterCall(adapter, "disconnect", TRUE, <<>>)
       ELSE adapter' = AdapterCall([adapter EXCEPT !.connected = FALSE],
                                   "disconnect", TRUE, <<"disconnect">>)

\* signTransaction: a legacy transaction is signed, a versioned one is refused
signTransaction(versioned) ==
    /\ UNCHANGED <<programVars, calc>>
    /\ IF ~adapter.connected \/ adapter.keypair = NoKeypair \/ versioned
       THEN adapter' = AdapterCall(adapter, "signTransaction", FALSE, <<"error">>)
       ELSE adapter' = AdapterCall(adapter, "signTransaction", TRUE, <<>>)

\* signAllTransactions: throws without emitting; anyVersioned says whether the list
\* holds a versioned transaction
signAllTransactions(anyVersioned) ==
    /\ UNCHANGED <<programVars, calc>>
    /\ adapter' = AdapterCall(adapter, "signAllTransactions",
                              ~(~adapter.connected \/ adapter.keypair = NoKeypair
                                \/ anyVersioned),
                              <<>>)

signMessage ==
    /\ UNCHANGED <<programVars, calc>>
    /\ adapter' = AdapterCall(adapter, "signMessage",
                              ~(~adapter.connected \/ adapter.keypair = NoKeypair), <<>>)

\* ------------------------------------------- applications of pure helpers
NoApp == [fn |-> "none", entry |-> "none", args |-> <<>>, out |-> <<>>]

\* record one more application, keeping the one before it
Applied(fn, entry, args, out) ==
    <<calc[2], [fn |-> fn, entry |-> entry, args |-> args, out |-> out]>>

\* ------------------------------------------------------ call outcomes
NoCall == [op |-> "none", entry |-> "none", caller |-> NoKey, party |-> NoKey,
           escrow |-> <<>>, idx |-> 0, count |-> 0, existed |-> FALSE,
           pre |-> "None", policy |-> "none", owner |-> NoKey,
           sent |-> <<>>, success |-> FALSE, kind |-> "none", thrown |-> FALSE]

Call(op, entry, caller, party, escrow, idx, sent, success, kind, thrown) ==
    [op |-> op, entry |-> entry, caller |-> caller, party |-> party,
     escrow |-> escrow, idx |-> idx,
     count |-> IF escrow \in EscrowPdas THEN escrowAcct[escrow].depositCount ELSE 0,
     existed |-> escrow \in EscrowPdas /\ escrowAcct[escrow].exists,
     owner |-> IF escrow \in EscrowPdas /\ idx \in 0..(MaxDeposits - 1)
               THEN depositRec[findDepositRecordPDA(escrow, idx)].depositor ELSE NoKey,
     pre |-> IF escrow \in EscrowPdas /\ idx \in 0..(MaxDeposits - 1)
             THEN depositRec[findDepositRecordPDA(escrow, idx)].state ELSE "None",
     policy |-> IF escrow \in EscrowPdas /\ idx \in 0..(MaxDeposits - 1)
                THEN depositRec[findDepositRecordPDA(escrow, idx)].policy ELSE "none",
     sent |-> sent, success |-> success, kind |-> kind, thrown |-> thrown]

\* ------------------------------------------- the on-ledger escrow program
IsAuthorized(policy, depositor, counterparty, signers) ==
    CASE policy = "sender" -> depositor \in signers
      [] policy = "receiver" -> counterparty \in signers
      [] policy = "both" -> depositor \in signers /\ counterparty \in signers
      [] OTHER -> FALSE

ProgramInitEscrowAccepts(escrowPda, sender, receiver, signers, tokenAccounts) ==
    /\ escrowPda \in EscrowPdas
    /\ ~escrowAcct[escrowPda].exists
    /\ sender \in signers
    /\ AllAtas(sender, receiver) \subseteq tokenAccounts

ProgramDepositAccepts(escrowPda, depositIdx, depositor, signers) ==
    /\ escrowPda \in EscrowPdas
    /\ escrowAcct[escrowPda].exists
    /\ depositor \in signers
    /\ depositIdx \in 0..(MaxDeposits - 1)
    /\ depositRec[findDepositRecordPDA(escrowPda, depositIdx)].state = "None"

ProgramCancelAccepts(escrowPda, depositIdx, originalDepositor, signers) ==
    /\ escrowPda \in EscrowPdas
    /\ depositIdx \in 0..(MaxDeposits - 1)
    /\ LET rec == depositRec[findDepositRecordPDA(escrowPda, depositIdx)]
       IN  /\ rec.state = "PendingWithdrawal"
           /\ rec.depositor = originalDepositor
           /\ originalDepositor \in signers

ProgramReleaseAccepts(escrowPda, depositIdx, authorizedSigner, signers) ==
    /\ escrowPda \in EscrowPdas
    /\ depositIdx \in 0..(MaxDeposits - 1)
    /\ LET rec == depositRec[findDepositRecordPDA(escrowPda, depositIdx)]
       IN  /\ rec.state = "PendingWithdrawal"
           /\ authorizedSigner \in signers
           /\ authorizedSigner \in {rec.depositor, rec.counterparty}
           /\ IsAuthorized(rec.policy, rec.depositor, rec.counterparty, signers)

LedgerInitEscrow(escrowPda) ==
    escrowAcct' = [escrowAcct EXCEPT ![escrowPda] = [exists |-> TRUE, depositCount |-> 0]]

LedgerDeposit(escrowPda, depositIdx, depositor, counterparty, policy) ==
    /\ depositRec' = [depositRec EXCEPT ![findDepositRecordPDA(escrowPda, depositIdx)] =
                        [state |-> "PendingWithdrawal", policy |-> policy,
                         depositor |-> depositor, counterparty |-> counterparty]]
    /\ escrowAcct' = [escrowAcct EXCEPT ![escrowPda].depositCount = @ + 1]

LedgerSetState(escrowPda, depositIdx, state) ==
    depositRec' = [depositRec EXCEPT ![findDepositRecordPDA(escrowPda, depositIdx)].state = state]

\* Disputed is set out-of-band, by no operation of the client.
MarkDisputed(escrowPda, depositIdx) ==
    /\ depositRec[findDepositRecordPDA(escrowPda, depositIdx)].state = "PendingWithdrawal"
    /\ LedgerSetState(escrowPda, depositIdx, "Disputed")
    /\ UNCHANGED <<pureVars, dbEscrows, depositStore, escrowAcct, atas, dbRows, store, procs, lastCall>>

\* ------------------------------------------------- client program store
\* a store that takes a program for ready, wallet or not
StoreReadyProgramOnly == store.program

StoreReady == store.program /\ store.wallet # NoKey

\* an initState that builds a program whether or not one is present
InitStateResultAlways(s, externalWallet, created) ==
    IF created THEN [program |-> TRUE, wallet |-> externalWallet]
    ELSE [program |-> FALSE, wallet |-> s.wallet]

\* the store after initState: untouched when a program is present, else the new
\* program with the wallet (none: read-only mode), or no program when creating it threw
InitStateResult(s, externalWallet, created) ==
    IF s.program THEN s
    ELSE IF created THEN [program |-> TRUE, wallet |-> externalWallet]
    ELSE [program |-> FALSE, wallet |-> s.wallet]

ResetStateResult == [program |-> FALSE, wallet |-> NoKey]

\* reinitState: resetState(), then initState(externalWallet)
ReinitStateResult(externalWallet, created) ==
    InitStateResult(ResetStateResult, externalWallet, created)

initState(externalWallet, created) ==
    /\ store' = InitStateResult(store, externalWallet, created)
    /\ UNCHANGED <<pureVars, dbEscrows, depositStore, escrowAcct, depositRec, atas, dbRows, procs, lastCall>>

resetState ==
    /\ store' = ResetStateResult
    /\ UNCHANGED <<pureVars, dbEscrows, depositStore, escrowAcct, depositRec, atas, dbRows, procs, lastCall>>

\* PublicKey.isOnCurve: a wallet key is a point of the curve, an address derived by
\* findProgramAddressSync never is
WalletAddress(key) == <<"wallet", key>>

isOnCurve(address) == address[1] = "wallet"

\* getEscrowStats of the program store: null unless the program is there, the address
\* is on the curve and an account is found under it
StoreGetEscrowStats(escrowPublicKey, walletAccountFound) ==
    LET found == IF escrowPublicKey \in EscrowPdas THEN escrowAcct[escrowPublicKey].exists
                 ELSE walletAccountFound
        stats == store.program /\ isOnCurve(escrowPublicKey) /\ found
    IN  /\ lastCall' = Call("getEscrowStats", "store", store.wallet, NoKey, escrowPublicKey, 0,
                            <<>>, stats, IF stats THEN "ok" ELSE "null", FALSE)
        /\ UNCHANGED <<pureVars, dbEscrows, depositStore, escrowAcct, depositRec, atas, dbRows,
                       procs, store>>

\* getEscrowStats of the V1 store: the same guard, then mock stats
StoreV1GetEscrowStats(escrowPublicKey) ==
    LET stats == store.program /\ isOnCurve(escrowPublicKey)
    IN  /\ lastCall' = Call("getEscrowStats", "storeV1", store.wallet, NoKey, escrowPublicKey, 0,
                            <<>>, stats, IF stats THEN "ok" ELSE "null", FALSE)
        /\ UNCHANGED <<pureVars, dbEscrows, depositStore, escrowAcct, depositRec, atas, dbRows,
                       procs, store>>

\* initFactory of the program store: the factory account lives on the ledger only;
\* the factory owner has to sign, and the connected wallet is the only signer
StoreInitFactory(walletPublicKey, netOk) ==
    LET done(sent, success, kind) ==
            lastCall' = Call("initFactory", "store", store.wallet, walletPublicKey, <<>>, 0,
                             sent, success, kind, FALSE)
    IN  /\ UNCHANGED <<pureVars, dbEscrows, depositStore, escrowAcct, depositRec, atas, dbRows,
                       store, procs>>
        /\ IF ~StoreReady
           THEN done(<<>>, FALSE, "Error")
           ELSE IF netOk /\ walletPublicKey = store.wallet
           THEN done(<<"InitFactory">>, TRUE, "ok")
           ELSE done(<<"InitFactory">>, FALSE, "SubmissionError")

\* initEscrow of the program store
StoreInitEscrow(senderPublicKey, receiverPublicKey, ataOk, netOk) ==
    LET escrowPda == findEscrowPDA(senderPublicKey, receiverPublicKey)
        missing == AllAtas(senderPublicKey, receiverPublicKey) \ atas
        done(sent, success, kind) ==
            lastCall' = Call("initEscrow", "store", store.wallet, senderPublicKey,
                             escrowPda, 0, sent, success, kind, FALSE)
    IN  /\ UNCHANGED <<pureVars, dbEscrows, depositStore, depositRec, dbRows, store, procs>>
        /\ IF ~StoreReady \/ store.wallet # senderPublicKey
           THEN done(<<>>, FALSE, "Error") /\ UNCHANGED <<escrowAcct, atas>>
           ELSE IF missing # {} /\ ~ataOk
           THEN done(<<"CreateAta">>, FALSE, "SubmissionError") /\ UNCHANGED <<escrowAcct, atas>>
           ELSE LET pre == IF missing # {} THEN <<"CreateAta">> ELSE <<>>
                    accepted == netOk /\ ProgramInitEscrowAccepts(escrowPda, senderPublicKey,
                                    receiverPublicKey, {store.wallet}, atas \cup missing)
                IN  /\ atas' = atas \cup missing
                    /\ IF accepted
                       THEN LedgerInitEscrow(escrowPda)
                            /\ done(Append(pre, "InitEscrow"), TRUE, "ok")
                       ELSE UNCHANGED escrowAcct
                            /\ done(Append(pre, "InitEscrow"), FALSE, "SubmissionError")

\* createDeposit without the comparison of the connected wallet with the depositor
StoreCreateDepositNoWalletCheck(escrowPublicKey, depositorPublicKey, counterpartyPublicKey, ledgerPolicy, netOk) ==
    LET depositCount == 0
        done(sent, success, kind) ==
            lastCall' = Call("createDeposit", "store", store.wallet, depositorPublicKey,
                             escrowPublicKey, depositCount, sent, success, kind, FALSE)
    IN  /\ UNCHANGED <<pureVars, dbEscrows, depositStore, atas, dbRows, store, procs>>
        /\ IF ~StoreReady
           THEN done(<<>>, FALSE, "Error") /\ UNCHANGED <<escrowAcct, depositRec>>
           ELSE IF netOk /\ ProgramDepositAccepts(escrowPublicKey, depositCount,
                                                  depositorPublicKey, {store.wallet})
           THEN LedgerDeposit(escrowPublicKey, depositCount, depositorPublicKey,
                              counterpartyPublicKey, ledgerPolicy)
                /\ done(<<"Deposit">>, TRUE, "ok")
           ELSE UNCHANGED <<escrowAcct, depositRec>>
                /\ done(<<"Deposit">>, FALSE, "SubmissionError")

\* createDeposit that hands the Deposit to the executor a second time after a failure
StoreCreateDepositRetrying(escrowPublicKey, depositorPublicKey, counterpartyPublicKey, ledgerPolicy, netOk) ==
    LET depositCount == 0
        done(sent, success, kind) ==
            lastCall' = Call("createDeposit", "store", store.wallet, depositorPublicKey,
                             escrowPublicKey, depositCount, sent, success, kind, FALSE)
    IN  /\ UNCHANGED <<pureVars, dbEscrows, depositStore, atas, dbRows, store, procs>>
        /\ IF ~StoreReady \/ store.wallet # depositorPublicKey
           THEN done(<<>>, FALSE, "Error") /\ UNCHANGED <<escrowAcct, depositRec>>
           ELSE IF netOk /\ ProgramDepositAccepts(escrowPublicKey, depositCount,
                                                  depositorPublicKey, {store.wallet})
           THEN LedgerDeposit(escrowPublicKey, depositCount, depositorPublicKey,
                              counterpartyPublicKey, ledgerPolicy)
                /\ done(<<"Deposit">>, TRUE, "ok")
           ELSE UNCHANGED <<escrowAcct, depositRec>>
                /\ done(<<"Deposit", "Deposit">>, FALSE, "SubmissionError")

\* createDeposit of the program store
StoreCreateDeposit(escrowPublicKey, depositorPublicKey, counterpartyPublicKey, ledgerPolicy, netOk) ==
    LET depositCount == 0
        done(sent, success, kind) ==
            lastCall' = Call("createDeposit", "store", store.wallet, depositorPublicKey,
                             escrowPublicKey, depositCount, sent, success, kind, FALSE)
    IN  /\ UNCHANGED <<pureVars, dbEscrows, depositStore, atas, dbRows, store, procs>>
        /\ IF ~StoreReady \/ store.wallet # depositorPublicKey
           THEN done(<<>>, FALSE, "Error") /\ UNCHANGED <<escrowAcct, depositRec>>
           ELSE IF netOk /\ ProgramDepositAccepts(escrowPublicKey, depositCount,
                                                  depositorPublicKey, {store.wallet})
           THEN LedgerDeposit(escrowPublicKey, depositCount, depositorPublicKey,
                              counterpartyPublicKey, ledgerPolicy)
                /\ done(<<"Deposit">>, TRUE, "ok")
           ELSE UNCHANGED <<escrowAcct, depositRec>>
                /\ done(<<"Deposit">>, FALSE, "SubmissionError")

\* cancelDeposit of the program store
StoreCancelDeposit(escrowPublicKey, depositorPublicKey, depositIdx, netOk) ==
    LET done(sent, success, kind) ==
            lastCall' = Call("cancelDeposit", "store", store.wallet, depositorPublicKey,
                             escrowPublicKey, depositIdx, sent, success, kind, FALSE)
    IN  /\ UNCHANGED <<pureVars, dbEscrows, depositStore, escrowAcct, atas, dbRows, store, procs>>
        /\ IF ~StoreReady
           THEN done(<<>>, FALSE, "Error") /\ UNCHANGED depositRec
           ELSE IF netOk /\ ProgramCancelAccepts(escrowPublicKey, depositIdx,
                                                 depositorPublicKey, {store.wallet})
           THEN LedgerSetState(escrowPublicKey, depositIdx, "Cancelled")
                /\ done(<<"Cancel">>, TRUE, "ok")
           ELSE UNCHANGED depositRec
                /\ done(<<"Cancel">>, FALSE, "SubmissionError")

\* requestWithdrawal of the program store
StoreRequestWithdrawal(escrowPublicKey, authorizedSignerPublicKey, depositIdx, netOk) ==
    LET done(sent, success, kind) ==
            lastCall' = Call("requestWithdrawal", "store", store.wallet, authorizedSignerPublicKey,
                             escrowPublicKey, depositIdx, sent, success, kind, FALSE)
    IN  /\ UNCHANGED <<pureVars, dbEscrows, depositStore, escrowAcct, atas, dbRows, store, procs>>
        /\ IF ~StoreReady
           THEN done(<<>>, FALSE, "Error") /\ UNCHANGED depositRec
           ELSE IF netOk /\ ProgramReleaseAccepts(escrowPublicKey, depositIdx,
                                                  authorizedSignerPublicKey, {store.wallet})
           THEN LedgerSetState(escrowPublicKey, depositIdx, "Completed")
                /\ done(<<"Release">>, TRUE, "ok")
           ELSE UNCHANGED depositRec
                /\ done(<<"Release">>, FALSE, "SubmissionError")

\* ---------------------------- client program store, earlier draft of the file
StoreV1InitEscrow(senderPublicKey, receiverPublicKey, netOk) ==
    LET escrowPda == findEscrowPDA(senderPublicKey, receiverPublicKey)
        done(sent, success, kind) ==
            lastCall' = Call("initEscrow", "storeV1", store.wallet, senderPublicKey,
                             escrowPda, 0, sent, success, kind, FALSE)
    IN  /\ UNCHANGED <<pureVars, dbEscrows, depositStore, depositRec, atas, dbRows, store, procs>>
        /\ IF ~StoreReady
           THEN done(<<>>, FALSE, "Error") /\ UNCHANGED escrowAcct
           ELSE IF netOk /\ ProgramInitEscrowAccepts(escrowPda, senderPublicKey,
                                                     receiverPublicKey, {store.wallet}, atas)
           THEN LedgerInitEscrow(escrowPda) /\ done(<<"InitEscrow">>, TRUE, "ok")
           ELSE UNCHANGED escrowAcct /\ done(<<"InitEscrow">>, FALSE, "SubmissionError")

StoreV1CreateDeposit(escrowPublicKey, depositorPublicKey, counterpartyPublicKey, ledgerPolicy, netOk) ==
    LET depositCount == 0
        done(sent, success, kind) ==
            lastCall' = Call("createDeposit", "storeV1", store.wallet, depositorPublicKey,
                             escrowPublicKey, depositCount, sent, success, kind, FALSE)
    IN  /\ UNCHANGED <<pureVars, dbEscrows, depositStore, atas, dbRows, store, procs>>
        /\ IF ~StoreReady \/ store.wallet # depositorPublicKey
           THEN done(<<>>, FALSE, "Error") /\ UNCHANGED <<escrowAcct, depositRec>>
           ELSE IF netOk /\ ProgramDepositAccepts(escrowPublicKey, depositCount,
                                                  depositorPublicKey, {store.wallet})
           THEN LedgerDeposit(escrowPublicKey, depositCount, depositorPublicKey,
                              counterpartyPublicKey, ledgerPolicy)
                /\ done(<<"Deposit">>, TRUE, "ok")
           ELSE UNCHANGED <<escrowAcct, depositRec>>
                /\ done(<<"Deposit">>, FALSE, "SubmissionError")

StoreV1CancelDeposit(escrowPublicKey, depositorPublicKey, depositIdx, netOk) ==
    LET done(sent, success, kind) ==
            lastCall' = Call("cancelDeposit", "storeV1", store.wallet, depositorPublicKey,
                             escrowPublicKey, depositIdx, sent, success, kind, FALSE)
    IN  /\ UNCHANGED <<pureVars, dbEscrows, depositStore, escrowAcct, atas, dbRows, store, procs>>
        /\ IF ~StoreReady
           THEN done(<<>>, FALSE, "Error") /\ UNCHANGED depositRec
           ELSE IF netOk /\ ProgramCancelAccepts(escrowPublicKey, depositIdx,
                                                 depositorPublicKey, {store.wallet})
           THEN LedgerSetState(escrowPublicKey, depositIdx, "Cancelled")
                /\ done(<<"Cancel">>, TRUE, "ok")
           ELSE UNCHANGED depositRec
                /\ done(<<"Cancel">>, FALSE, "SubmissionError")

\* ------------------------------------------------ client deposit store
\* the deposit store before any submitDeposit; escrowPublicKey <<>> stands for null
IdleDepositStore ==
    [pc |-> "idle", isSubmitting |-> FALSE, step |-> 1, result |-> "none", thrown |-> FALSE,
     escrowExists |-> FALSE, escrowPublicKey |-> <<>>, sender |-> NoKey, receiver |-> NoKey]

\* submitDeposit leaves isSubmitting set on its way out
SubmitEndsStillSubmitting(result, step, thrown) ==
    depositStore' = [depositStore EXCEPT !.pc = "idle", !.result = result, !.step = step,
                                         !.thrown = thrown]

\* submitDeposit has returned or thrown: the finally block clears isSubmitting
SubmitEnds(result, step, thrown) ==
    depositStore' = [depositStore EXCEPT !.pc = "idle", !.isSubmitting = FALSE,
                                         !.result = result, !.step = step,
                                         !.thrown = thrown]

\* startDeposit: the escrow rows between the two users, looked up in either order
startDepositEscrows(sender, recipient) ==
    dbEscrows \cap {findEscrowPDA(sender, recipient), findEscrowPDA(recipient, sender)}

\* ------------------------------------------------ server: senda router
Procs == {1, 2}
IdleProc == [pc |-> "idle", user |-> NoKey, depositor |-> NoKey, counterparty |-> NoKey,
             authorization |-> "none", nextDepositIdx |-> 0, transactionId |-> 0]

\* a createDeposit that waits for every other createDeposit in flight
MayStartCreateDepositLocked(p) == \A q \in Procs : procs[q].pc = "idle"

\* a createDeposit request starts whenever its worker is free: the handler takes no lock
MayStartCreateDeposit(p) == procs[p].pc = "idle"

\* EscrowService.initializeEscrow: create the escrow unless it is there already
EnsureEscrow(escrowPda, sender, receiver) ==
    /\ atas' = atas \cup AllAtas(sender, receiver)
    /\ IF escrowAcct[escrowPda].exists THEN UNCHANGED escrowAcct ELSE LedgerInitEscrow(escrowPda)

\* initEscrow of the senda router: token accounts, existence check, then InitEscrow
\* signed by the session user's keypair and the fee payer; every error is rethrown
ServerInitEscrow(user, sender, receiver, ataOk, netOk) ==
    LET escrowPda == findEscrowPDA(sender, receiver)
        missing == AllAtas(sender, receiver) \ atas
        pre == IF missing # {} THEN <<"CreateAta">> ELSE <<>>
        done(sent, success, kind, thrown) ==
            lastCall' = Call("initEscrow", "server", user, sender, escrowPda, 0,
                             sent, success, kind, thrown)
    IN  /\ UNCHANGED <<pureVars, depositRec, dbRows, store, procs, dbEscrows, depositStore>>
        /\ IF ~ataOk
           THEN done(<<"CreateAta">>, FALSE, "SubmissionError", TRUE)
                /\ UNCHANGED <<escrowAcct, atas>>
           ELSE /\ atas' = atas \cup missing
                /\ IF escrowAcct[escrowPda].exists
                   THEN done(pre, TRUE, "ok", FALSE) /\ UNCHANGED escrowAcct
                   ELSE IF netOk /\ ProgramInitEscrowAccepts(escrowPda, sender, receiver,
                                                             {user, FeePayer}, atas \cup missing)
                   THEN LedgerInitEscrow(escrowPda)
                        /\ done(Append(pre, "InitEscrow"), TRUE, "ok", FALSE)
                   ELSE UNCHANGED escrowAcct
                        /\ done(Append(pre, "InitEscrow"), FALSE, "SubmissionError", TRUE)

\* initEscrow of the senda router as the steps a concurrent request can interleave
\* with: up to the answer of getAccountInfo ...
ServerInitEscrowCheck(p, user, sender, receiver, ataOk) ==
    LET escrowPda == findEscrowPDA(sender, receiver)
        missing == AllAtas(sender, receiver) \ atas
        pre == IF missing # {} THEN <<"CreateAta">> ELSE <<>>
        done(sent, success, kind, thrown) ==
            lastCall' = Call("initEscrow", "server", user, sender, escrowPda, 0,
                             sent, success, kind, thrown)
    IN  /\ procs[p].pc = "idle"
        /\ UNCHANGED <<pureVars, escrowAcct, depositRec, dbRows, store, dbEscrows, depositStore>>
        /\ IF ~ataOk
           THEN done(<<"CreateAta">>, FALSE, "SubmissionError", TRUE)
                /\ UNCHANGED <<atas, procs>>
           ELSE /\ atas' = atas \cup missing
                /\ IF escrowAcct[escrowPda].exists
                   THEN done(pre, TRUE, "ok", FALSE) /\ UNCHANGED procs
                   ELSE /\ procs' = [procs EXCEPT ![p] =
                                       [IdleProc EXCEPT !.pc = "initEscrow", !.user = user,
                                                        !.depositor = sender,
                                                        !.counterparty = receiver]]
                        /\ UNCHANGED lastCall

\* ... and from there the submission of InitEscrow and its confirmation
ServerInitEscrowSubmit(p, netOk) ==
    LET sender == procs[p].depositor
        receiver == procs[p].counterparty
        escrowPda == findEscrowPDA(sender, receiver)
        accepted == netOk /\ ProgramInitEscrowAccepts(escrowPda, sender, receiver,
                                                      {procs[p].user, FeePayer}, atas)
    IN  /\ procs[p].pc = "initEscrow"
        /\ procs' = [procs EXCEPT ![p] = IdleProc]
        /\ UNCHANGED <<pureVars, depositRec, atas, dbRows, store, dbEscrows, depositStore>>
        /\ IF accepted THEN LedgerInitEscrow(escrowPda) ELSE UNCHANGED escrowAcct
        /\ lastCall' = Call("initEscrow", "server", procs[p].user, sender, escrowPda, 0,
                            <<"InitEscrow">>, accepted,
                            IF accepted THEN "ok" ELSE "SubmissionError", ~accepted)

\* EscrowService keeps a row of the escrow table for an escrow it knows on the ledger
EscrowServiceRecordsEscrow(escrowPda) ==
    /\ escrowAcct[escrowPda].exists
    /\ escrowPda \notin dbEscrows
    /\ dbEscrows' = dbEscrows \cup {escrowPda}
    /\ UNCHANGED <<pureVars, escrowAcct, depositRec, atas, dbRows, store, procs, lastCall, depositStore>>

\* the index the server builds the deposit with: the fetched counter, 0 when the fetch threw
FetchNextDepositIdx(escrowPda, fetchOk) ==
    IF fetchOk /\ escrowAcct'[escrowPda].exists THEN escrowAcct'[escrowPda].depositCount ELSE 0

\* createDeposit, up to and including the read of the escrow's deposit counter
ServerCreateDepositRead(p, user, depositor, counterparty, authorization, userOk, escrowOk, fetchOk) ==
    LET escrowPda == findEscrowPDA(depositor, counterparty)
    IN  /\ MayStartCreateDeposit(p)
        /\ UNCHANGED <<pureVars, dbEscrows, depositStore, depositRec, dbRows, store>>
        /\ IF ~userOk \/ ~escrowOk
           THEN /\ UNCHANGED <<escrowAcct, atas, procs>>
                /\ lastCall' = Call("createDeposit", "server", user, depositor, escrowPda, 0,
                                    <<>>, FALSE, "Error", FALSE)
           ELSE /\ EnsureEscrow(escrowPda, depositor, counterparty)
                /\ FetchNextDepositIdx(escrowPda, fetchOk) < MaxDeposits
                /\ procs' = [procs EXCEPT ![p] =
                                [pc |-> "submit", user |-> user, depositor |-> depositor,
                                 counterparty |-> counterparty, authorization |-> authorization,
                                 nextDepositIdx |-> FetchNextDepositIdx(escrowPda, fetchOk),
                                 transactionId |-> 0]]
                /\ UNCHANGED lastCall

DbPolicy(authorization) == IF authorization = "both" THEN "DUAL" ELSE "SINGLE"

\* the authorization the wallet page shows for a stored policy
TransactionCardAuthorization(policy) == IF policy = "DUAL" THEN "both" ELSE "sender"

NewRow(creator, dest, escrowId, depositIndex, authorization, sig) ==
    [creator |-> creator, dest |-> dest, escrowId |-> escrowId, depositIndex |-> depositIndex,
     policy |-> DbPolicy(authorization), status |-> "PENDING", state |-> "PENDING",
     sig |-> sig, signers |-> {creator}, history |-> 0]

\* createDeposit, from the submission of the Deposit operation to the returned result
ServerCreateDepositSubmit(p, netOk, dbOk, mailOk) ==
    LET c == procs[p]
        escrowPda == findEscrowPDA(c.depositor, c.counterparty)
        depositRecordPda == findDepositRecordPDA(escrowPda, c.nextDepositIdx)
        done(success, kind) ==
            lastCall' = Call("createDeposit", "server", c.user, c.depositor, escrowPda,
                             c.nextDepositIdx, <<"Deposit">>, success, kind, FALSE)
    IN  /\ c.pc = "submit"
        /\ procs' = [procs EXCEPT ![p] = IdleProc]
        /\ UNCHANGED <<pureVars, depositStore, atas, store>>
        /\ IF netOk /\ ProgramDepositAccepts(escrowPda, c.nextDepositIdx, c.depositor,
                                             {FeePayer, c.user})
           THEN /\ LedgerDeposit(escrowPda, c.nextDepositIdx, c.depositor, c.counterparty,
                                 c.authorization)
                /\ IF dbOk /\ Len(dbRows) < MaxRows
                   THEN /\ dbRows' = Append(dbRows, NewRow(c.depositor, c.counterparty, escrowPda,
                                                          c.nextDepositIdx, c.authorization,
                                                          depositRecordPda))
                        /\ dbEscrows' = dbEscrows \cup {escrowPda}
                        /\ IF mailOk THEN done(TRUE, "ok") ELSE done(FALSE, "Error")
                   ELSE UNCHANGED <<dbRows, dbEscrows>> /\ done(FALSE, "Error")
           ELSE /\ UNCHANGED <<escrowAcct, depositRec, dbRows, dbEscrows>>
                /\ done(FALSE, "SubmissionError")

\* loadSignerKeypair(userId, pubkey): the session user's keypair, when it is the key asked for
LoadSignerKeypairOk(user, pubkey) == user = pubkey

\* cancelDeposit of the senda router: no bookkeeping write
ServerCancelDeposit(user, escrow, originalDepositor, depositIdx, netOk) ==
    LET done(sent, success, kind, thrown) ==
            lastCall' = Call("cancelDeposit", "server", user, originalDepositor, escrow,
                             depositIdx, sent, success, kind, thrown)
    IN  /\ UNCHANGED <<pureVars, dbEscrows, depositStore, escrowAcct, atas, dbRows, store, procs>>
        /\ IF ~LoadSignerKeypairOk(user, originalDepositor)
           THEN done(<<>>, FALSE, "Error", TRUE) /\ UNCHANGED depositRec
           ELSE IF netOk /\ ProgramCancelAccepts(escrow, depositIdx, originalDepositor,
                                                 {FeePayer, user})
           THEN LedgerSetState(escrow, depositIdx, "Cancelled")
                /\ done(<<"Cancel">>, TRUE, "ok", FALSE)
           ELSE UNCHANGED depositRec
                /\ done(<<"Cancel">>, FALSE, "SubmissionError", TRUE)

\* requestWithdrawal of the senda router: no bookkeeping write
ServerRequestWithdrawal(user, escrow, authorizedSigner, depositIdx, netOk) ==
    LET done(sent, success, kind, thrown) ==
            lastCall' = Call("requestWithdrawal", "server", user, authorizedSigner, escrow,
                             depositIdx, sent, success, kind, thrown)
    IN  /\ UNCHANGED <<pureVars, dbEscrows, depositStore, escrowAcct, atas, dbRows, store, procs>>
        /\ IF ~LoadSignerKeypairOk(user, authorizedSigner)
           THEN done(<<>>, FALSE, "Error", TRUE) /\ UNCHANGED depositRec
           ELSE IF netOk /\ ProgramReleaseAccepts(escrow, depositIdx, authorizedSigner,
                                                  {FeePayer, user})
           THEN LedgerSetState(escrow, depositIdx, "Completed")
                /\ done(<<"Release">>, TRUE, "ok", FALSE)
           ELSE UNCHANGED depositRec
                /\ done(<<"Release">>, FALSE, "SubmissionError", TRUE)

\* ------------------------------------------ server: transaction router
RowEscrow(i) == dbRows[i].escrowId
RowIdx(i) == dbRows[i].sig[3]
Recorded == {dbRows[i].sig : i \in DOMAIN dbRows}

\* createDepositRecord, called with the signature of a confirmed client deposit
createDepositRecord(user, recipient, authorization, escrowPublicKey, depositSignature, random, dbOk) ==
    /\ depositSignature \in RecordPdas
    /\ depositRec[depositSignature].state # "None"
    /\ depositSignature \notin Recorded
    /\ Len(dbRows) < MaxRows
    /\ UNCHANGED <<pureVars, dbEscrows, depositStore, escrowAcct, depositRec, atas, store, procs>>
    /\ IF dbOk
       THEN /\ dbRows' = Append(dbRows, NewRow(user, recipient, escrowPublicKey, random,
                                              authorization, depositSignature))
            /\ lastCall' = Call("createDepositRecord", "txRouter", user, recipient,
                                escrowPublicKey, random, <<>>, TRUE, "ok", FALSE)
       ELSE /\ UNCHANGED dbRows
            /\ lastCall' = Call("createDepositRecord", "txRouter", user, recipient,
                                escrowPublicKey, random, <<>>, FALSE, "Error", TRUE)

\* withdrawFunds: a bookkeeping write, no ledger operation
withdrawFunds(user, transactionId, dbOk) ==
    LET row == dbRows[transactionId]
        done(success, kind, thrown) ==
            lastCall' = Call("withdrawFunds", "txRouter", user, row.creator, row.escrowId,
                             RowIdx(transactionId), <<>>, success, kind, thrown)
    IN  /\ transactionId \in DOMAIN dbRows
        /\ UNCHANGED <<pureVars, dbEscrows, depositStore, escrowAcct, depositRec, atas, store, procs>>
        /\ IF row.status # "PENDING" \/ row.dest # user \/ ~dbOk
           THEN UNCHANGED dbRows /\ done(FALSE, "Error", TRUE)
           ELSE /\ dbRows' = [dbRows EXCEPT ![transactionId] =
                                [@ EXCEPT !.status = "COMPLETED", !.state = "COMPLETED",
                                          !.history = @ + 1]]
                /\ done(TRUE, "ok", FALSE)

\* withdrawFunds as the steps a concurrent request can interleave with: the read of
\* the transaction and the checks on it ...
withdrawFundsCheck(p, user, transactionId) ==
    LET row == dbRows[transactionId]
    IN  /\ procs[p].pc = "idle"
        /\ transactionId \in DOMAIN dbRows
        /\ UNCHANGED <<pureVars, dbEscrows, depositStore, escrowAcct, depositRec, atas, store,
                       dbRows>>
        /\ IF row.status # "PENDING" \/ row.dest # user
           THEN /\ UNCHANGED procs
                /\ lastCall' = Call("withdrawFunds", "txRouter", user, row.creator, row.escrowId,
                                    RowIdx(transactionId), <<>>, FALSE, "Error", TRUE)
           ELSE /\ procs' = [procs EXCEPT ![p] =
                               [IdleProc EXCEPT !.pc = "withdraw", !.user = user,
                                                !.transactionId = transactionId]]
                /\ UNCHANGED lastCall

\* ... and the database transaction that marks it COMPLETED and writes the history
withdrawFundsCommit(p, dbOk) ==
    LET transactionId == procs[p].transactionId
        row == dbRows[transactionId]
        done(success, kind, thrown) ==
            lastCall' = Call("withdrawFunds", "txRouter", procs[p].user, row.creator,
                             row.escrowId, RowIdx(transactionId), <<>>, success, kind, thrown)
    IN  /\ procs[p].pc = "withdraw"
        /\ procs' = [procs EXCEPT ![p] = IdleProc]
        /\ UNCHANGED <<pureVars, dbEscrows, depositStore, escrowAcct, depositRec, atas, store>>
        /\ IF dbOk
           THEN /\ dbRows' = [dbRows EXCEPT ![transactionId] =
                                [@ EXCEPT !.status = "COMPLETED", !.state = "COMPLETED",
                                          !.history = @ + 1]]
                /\ done(TRUE, "ok", FALSE)
           ELSE UNCHANGED dbRows /\ done(FALSE, "Error", TRUE)

\* ------------------------------------- client deposit store: submitDeposit
\* submitDeposit up to the answer of startDeposit
submitDepositStart(sender, recipient, found, startOk) ==
    /\ depositStore.pc = "idle"
    /\ UNCHANGED <<pureVars, escrowAcct, depositRec, atas, dbRows, store, procs, dbEscrows>>
    /\ IF ~startOk
       THEN /\ SubmitEnds("failure", depositStore.step, TRUE)
            /\ lastCall' = Call("startDeposit", "txRouter", sender, recipient, <<>>, 0,
                                <<>>, FALSE, "Error", TRUE)
       ELSE /\ IF startDepositEscrows(sender, recipient) = {}
               THEN found = <<>>
               ELSE found \in startDepositEscrows(sender, recipient)
            /\ depositStore' = [depositStore EXCEPT
                                  !.pc = IF found = <<>> THEN "escrow" ELSE "deposit",
                                  !.isSubmitting = TRUE, !.thrown = FALSE,
                                  !.escrowExists = (found # <<>>),
                                  !.escrowPublicKey = found,
                                  !.sender = sender, !.receiver = recipient]
            /\ lastCall' = Call("startDeposit", "txRouter", sender, recipient, found, 0,
                                <<>>, TRUE, "ok", FALSE)

\* the wallet checks before the escrow creation and before the deposit
submitDepositWalletRequired ==
    /\ depositStore.pc \in {"escrow", "deposit"}
    /\ lastCall.op = "startDeposit"
    /\ ~StoreReady \/ store.wallet # depositStore.sender
    /\ SubmitEnds("failure", 1, TRUE)
    /\ UNCHANGED <<pureVars, escrowAcct, depositRec, atas, dbRows, store, procs, dbEscrows, lastCall>>

\* the call of the program store's initEscrow
submitDepositInitEscrow(netOk) ==
    /\ depositStore.pc = "escrow"
    /\ lastCall.op = "startDeposit"
    /\ StoreReady /\ store.wallet = depositStore.sender
    /\ StoreV1InitEscrow(depositStore.sender, depositStore.receiver, netOk)

\* what submitDeposit does with the result of initEscrow
submitDepositAfterInitEscrow(looksExisting, found) ==
    /\ depositStore.pc = "escrow"
    /\ lastCall.op = "initEscrow" /\ lastCall.entry = "storeV1"
    /\ UNCHANGED <<pureVars, escrowAcct, depositRec, atas, dbRows, store, procs, dbEscrows, lastCall>>
    /\ IF lastCall.success
       THEN \* prisma.escrow.create with the null id fails and is swallowed;
            \* startResult.escrowPublicKey is still null: 'Missing escrow public key'
            /\ found = <<>>
            /\ IF depositStore.escrowPublicKey = <<>>
               THEN SubmitEnds("failure", depositStore.step, TRUE)
               ELSE depositStore' = [depositStore EXCEPT !.pc = "deposit"]
       ELSE IF looksExisting /\ lastCall.existed
       THEN \* the error reads as 'already exists': ask the server again
            /\ IF startDepositEscrows(depositStore.sender, depositStore.receiver) = {}
               THEN found = <<>> /\ SubmitEnds("failure", depositStore.step, TRUE)
               ELSE /\ found \in startDepositEscrows(depositStore.sender, depositStore.receiver)
                    /\ depositStore' = [depositStore EXCEPT !.pc = "deposit",
                                          !.escrowExists = TRUE, !.escrowPublicKey = found]
       ELSE found = <<>> /\ SubmitEnds("failure", depositStore.step, TRUE)

\* the call of the program store's createDeposit
submitDepositCreateDeposit(ledgerPolicy, netOk) ==
    /\ depositStore.pc = "deposit"
    /\ lastCall.op \in {"startDeposit", "initEscrow"}
    /\ StoreReady /\ store.wallet = depositStore.sender
    /\ StoreV1CreateDeposit(depositStore.escrowPublicKey, depositStore.sender,
                            depositStore.receiver, ledgerPolicy, netOk)

\* what submitDeposit does with the result of createDeposit
submitDepositAfterCreateDeposit ==
    /\ depositStore.pc = "deposit"
    /\ lastCall.op = "createDeposit" /\ lastCall.entry = "storeV1"
    /\ UNCHANGED <<pureVars, escrowAcct, depositRec, atas, dbRows, store, procs, dbEscrows, lastCall>>
    /\ IF lastCall.success
       THEN depositStore' = [depositStore EXCEPT !.pc = "finalize"]
       ELSE SubmitEnds("failure", depositStore.step, TRUE)

\* the bookkeeping call that finalizes the deposit
submitDepositFinalize(authorization, random, dbOk) ==
    /\ depositStore.pc = "finalize"
    /\ lastCall.op = "createDeposit" /\ lastCall.entry = "storeV1"
    /\ createDepositRecord(depositStore.sender, depositStore.receiver, authorization,
                           depositStore.escrowPublicKey,
                           findDepositRecordPDA(depositStore.escrowPublicKey, lastCall.idx),
                           random, dbOk)

\* the end of submitDeposit: the result of the bookkeeping call
submitDepositDone(recipientNotFound, inviteOk) ==
    /\ depositStore.pc = "finalize"
    /\ lastCall.op = "createDepositRecord"
    /\ UNCHANGED <<pureVars, escrowAcct, depositRec, atas, dbRows, store, procs, dbEscrows, lastCall>>
    /\ IF lastCall.success THEN SubmitEnds("success", 4, FALSE)
       ELSE IF recipientNotFound /\ inviteOk
       THEN \* the error reads 'Recipient not found' and the invitation is sent:
            \* transactionResult {success: true, message: 'Invitation sent successfully'}
            SubmitEnds("invited", 4, FALSE)
       ELSE SubmitEnds("failure", depositStore.step, TRUE)

Init ==
    /\ escrowAcct = [e \in EscrowPdas |-> [exists |-> FALSE, depositCount |-> 0]]
    /\ depositRec = [r \in RecordPdas |-> NoRecord]
    /\ atas = {}
    /\ dbRows = <<>>
    /\ store = [program |-> FALSE, wallet |-> NoKey]
    /\ procs = [p \in Procs |-> IdleProc]
    /\ lastCall = NoCall
    /\ dbEscrows = {}
    /\ depositStore = IdleDepositStore
    /\ calc = <<NoApp, NoApp>>
    /\ adapter = NewKeypairWalletAdapter(NoKey, NoKeypair)

Sender == "S"
Receiver == "R"
TheEscrow == findEscrowPDA(Sender, Receiver)
Indices == 0..(MaxDeposits - 1)

NextStore ==
    \/ \E w \in Keys \cup {NoKey}, c \in BOOLEAN : initState(w, c)
    \/ resetState
    \/ \E w \in Parties, n \in BOOLEAN : StoreInitFactory(w, n)
    \/ \E a \in BOOLEAN, n \in BOOLEAN : StoreInitEscrow(Sender, Receiver, a, n)
    \/ \E d \in Parties, p \in Policies, n \in BOOLEAN :
          StoreCreateDeposit(TheEscrow, d, CHOOSE c \in Parties : c # d, p, n)
    \/ \E d \in Parties, i \in Indices, n \in BOOLEAN : StoreCancelDeposit(TheEscrow, d, i, n)
    \/ \E a \in Keys, i \in Indices, n \in BOOLEAN : StoreRequestWithdrawal(TheEscrow, a, i, n)
    \/ \E n \in BOOLEAN : StoreV1InitEscrow(Sender, Receiver, n)
    \/ \E d \in Parties, p \in Policies, n \in BOOLEAN :
          StoreV1CreateDeposit(TheEscrow, d, CHOOSE c \in Parties : c # d, p, n)
    \/ \E d \in Parties, i \in Indices, n \in BOOLEAN : StoreV1CancelDeposit(TheEscrow, d, i, n)

SpecStore == Init /\ [][NextStore]_vars
NextServer ==
    \/ \E a \in Policies, uo \in BOOLEAN, eo \in BOOLEAN, fo \in BOOLEAN :
          ServerCreateDepositRead(1, Sender, Sender, Receiver, a, uo, eo, fo)
    \/ \E n \in BOOLEAN, d \in BOOLEAN, m \in BOOLEAN : ServerCreateDepositSubmit(1, n, d, m)
    \/ \E u \in Parties, i \in Indices, n \in BOOLEAN :
          ServerCancelDeposit(u, TheEscrow, Sender, i, n)
    \/ \E u \in Keys, i \in Indices, n \in BOOLEAN :
          ServerRequestWithdrawal(u, TheEscrow, u, i, n)
    \/ \E u \in Parties, t \in 1..MaxRows, d \in BOOLEAN : withdrawFunds(u, t, d)
    \/ \E i \in Indices : MarkDisputed(TheEscrow, i)

SpecServer == Init /\ [][NextServer]_vars
InitBook ==
    /\ escrowAcct = [e \in EscrowPdas |-> [exists |-> FALSE, depositCount |-> 0]]
    /\ depositRec = [r \in RecordPdas |-> NoRecord]
    /\ atas = {}
    /\ dbRows = <<>>
    /\ store = [program |-> TRUE, wallet |-> Sender]
    /\ procs = [p \in Procs |-> IdleProc]
    /\ lastCall = NoCall
    /\ dbEscrows = {}
    /\ depositStore = IdleDepositStore
    /\ calc = <<NoApp, NoApp>>
    /\ adapter = NewKeypairWalletAdapter(NoKey, NoKeypair)

NextBook ==
    \/ \E a \in Policies, fo \in BOOLEAN :
          ServerCreateDepositRead(1, Sender, Sender, Receiver, a, TRUE, TRUE, fo)
    \/ \E n \in BOOLEAN : ServerCreateDepositSubmit(1, n, TRUE, TRUE)
    \/ \E p \in Policies, n \in BOOLEAN : StoreCreateDeposit(TheEscrow, Sender, Receiver, p, n)
    \/ \E a \in Policies, sig \in RecordPdas, x \in 0..(RandomRange - 1), d \in BOOLEAN :
          createDepositRecord(Sender, Receiver, a, TheEscrow, sig, x, d)

SpecBook == InitBook /\ [][NextBook]_vars

NextFlow ==
    \/ \E w \in Parties, c \in BOOLEAN : initState(w, c)
    \/ \E f \in EscrowPdas \cup {<<>>}, o \in BOOLEAN :
          submitDepositStart(Sender, Receiver, f, o)
    \/ submitDepositWalletRequired
    \/ \E n \in BOOLEAN : submitDepositInitEscrow(n)
    \/ \E l \in BOOLEAN, f \in EscrowPdas \cup {<<>>} : submitDepositAfterInitEscrow(l, f)
    \/ \E p \in Policies, n \in BOOLEAN : submitDepositCreateDeposit(p, n)
    \/ submitDepositAfterCreateDeposit
    \/ \E x \in 0..(RandomRange - 1), d \in BOOLEAN : submitDepositFinalize("sender", x, d)
    \/ \E r \in BOOLEAN, i \in BOOLEAN : submitDepositDone(r, i)
    \/ \E e \in EscrowPdas : EscrowServiceRecordsEscrow(e)
    \/ /\ depositStore.pc = "idle"
       /\ \E s \in Parties, a \in BOOLEAN, n \in BOOLEAN :
             \E r \in Parties \ {s} : ServerInitEscrow(s, s, r, a, n)

SpecFlow == Init /\ [][NextFlow]_vars

NextInit ==
    \/ \E w \in Keys \cup {NoKey}, c \in BOOLEAN : initState(w, c)
    \/ resetState
    \/ \E s \in Parties, a \in BOOLEAN, n \in BOOLEAN :
          StoreInitEscrow(s, CHOOSE r \in Parties : r # s, a, n)
    \/ \E s \in Parties, n \in BOOLEAN :
          StoreV1InitEscrow(s, CHOOSE r \in Parties : r # s, n)
    \/ \E u \in Parties, s \in Parties, a \in BOOLEAN, n \in BOOLEAN :
          ServerInitEscrow(u, s, CHOOSE r \in Parties : r # s, a, n)

SpecInit == Init /\ [][NextInit]_vars

\* the store's lifecycle calls, each noted with the store it found and the store it left
LifecycleInitState(externalWallet, created) ==
    /\ store' = InitStateResult(store, externalWallet, created)
    /\ UNCHANGED adapter
    /\ calc' = Applied("initState", "store", <<store, externalWallet, created>>, store')
    /\ UNCHANGED <<dbEscrows, depositStore, escrowAcct, depositRec, atas, dbRows, procs, lastCall>>

LifecycleResetState ==
    /\ store' = ResetStateResult
    /\ UNCHANGED adapter
    /\ calc' = Applied("resetState", "store", <<store>>, store')
    /\ UNCHANGED <<dbEscrows, depositStore, escrowAcct, depositRec, atas, dbRows, procs, lastCall>>

LifecycleReinitState(externalWallet, created) ==
    /\ store' = ReinitStateResult(externalWallet, created)
    /\ UNCHANGED adapter
    /\ calc' = Applied("reinitState", "store", <<store, externalWallet, created>>, store')
    /\ UNCHANGED <<dbEscrows, depositStore, escrowAcct, depositRec, atas, dbRows, procs, lastCall>>

NextLifecycle ==
    \/ \E w \in Keys \cup {NoKey}, c \in BOOLEAN : LifecycleInitState(w, c)
    \/ LifecycleResetState
    \/ \E w \in Keys \cup {NoKey}, c \in BOOLEAN : LifecycleReinitState(w, c)

SpecLifecycle == Init /\ [][NextLifecycle]_vars

StatsAddresses == EscrowPdas \cup {WalletAddress(k) : k \in Parties}

NextStats ==
    \/ \E w \in Parties \cup {NoKey}, c \in BOOLEAN : initState(w, c)
    \/ resetState
    \/ \E s \in Parties, a \in BOOLEAN, n \in BOOLEAN :
          ServerInitEscrow(s, s, CHOOSE r \in Parties : r # s, a, n)
    \/ \E e \in StatsAddresses, f \in BOOLEAN : StoreGetEscrowStats(e, f)
    \/ \E e \in StatsAddresses : StoreV1GetEscrowStats(e)

SpecStats == Init /\ [][NextStats]_vars

\* ------------------------------------------------ escrow addressing
Seeds == 0..MaxSeed

\* the escrow address initEscrow works on, given its seed argument: the store
\* calls findEscrowPDA(sender, receiver), the router derives it inline
InitEscrowAddress(entry, sender, receiver, seed) ==
    IF entry = "store" THEN findEscrowPDA(sender, receiver)
    ELSE <<"escrow", sender, receiver>>

DeriveInitEscrow(entry, sender, receiver, seed) ==
    /\ UNCHANGED adapter
    /\ calc' = Applied("initEscrow", entry, <<sender, receiver, seed>>,
                       InitEscrowAddress(entry, sender, receiver, seed))
    /\ UNCHANGED programVars

DeriveEscrow(sender, receiver) ==
    /\ UNCHANGED adapter
    /\ calc' = Applied("findEscrowPDA", "helpers", <<sender, receiver>>,
                       findEscrowPDA(sender, receiver))
    /\ UNCHANGED programVars

NextDerive ==
    \/ \E e \in {"store", "server"}, s \in Keys, r \in Keys, x \in Seeds :
          DeriveInitEscrow(e, s, r, x)
    \/ \E s \in Keys, r \in Keys : DeriveEscrow(s, r)

SpecDerive == Init /\ [][NextDerive]_vars

\* ------------------------------------------------ instruction encoding
Operations == {"InitFactory", "InitEscrow", "Deposit", "Cancel", "Release"}

Discriminator(operation) ==
    CASE operation = "InitEscrow" -> <<243, 160, 77, 153, 11, 92, 48, 209>>
      [] operation = "Deposit" -> <<98, 231, 20, 217, 235, 33, 213, 28>>
      [] operation = "Cancel" -> <<232, 219, 223, 41, 219, 236, 220, 190>>
      [] operation = "Release" -> <<253, 249, 15, 206, 28, 127, 193, 241>>
      [] OTHER -> <<0>>

\* A JavaScript number holding an integer: its sign and its magnitude in binary
\* digits, least significant first, without leading zeros.
Zeros(n) == [i \in 1..n |-> 0]

Ones(n) == [i \in 1..n |-> 1]

RECURSIVE Canonical(_)
Canonical(bits) ==
    IF bits = <<>> \/ bits[Len(bits)] = 1 THEN bits
    ELSE Canonical(SubSeq(bits, 1, Len(bits) - 1))

RECURSIVE Increment(_)
Increment(bits) ==
    IF bits = <<>> THEN <<1>>
    ELSE IF Head(bits) = 0 THEN <<1>> \o Tail(bits)
    ELSE <<0>> \o Increment(Tail(bits))

RECURSIVE FromNat(_)
FromNat(n) == IF n = 0 THEN <<>> ELSE <<n % 2>> \o FromNat(n \div 2)

Integer(neg, mag) == [neg |-> neg /\ mag # <<>>, mag |-> mag, frac |-> FALSE]

\* a number that is no integer: mag is its integer part
NonInteger(neg, mag) == [neg |-> neg, mag |-> mag, frac |-> TRUE]

\* the number type: the nearest double of an integer keeps 53 significant binary
\* digits, ties going to the even neighbour
ToNumber(value) ==
    IF Len(value.mag) <= 53 THEN value
    ELSE LET drop == Len(value.mag) - 53
             kept == SubSeq(value.mag, drop + 1, Len(value.mag))
             up == /\ value.mag[drop] = 1
                   /\ \/ \E i \in 1..(drop - 1) : value.mag[i] = 1
                      \/ kept[1] = 1
         IN  Integer(value.neg, Zeros(drop) \o (IF up THEN Increment(kept) ELSE kept))

BitAt(bits, i) == IF i <= Len(bits) THEN bits[i] ELSE 0

ByteAt(bits, b) ==
    LET o == 8 * (b - 1)
    IN  BitAt(bits, o + 1) + 2 * BitAt(bits, o + 2) + 4 * BitAt(bits, o + 3)
        + 8 * BitAt(bits, o + 4) + 16 * BitAt(bits, o + 5) + 32 * BitAt(bits, o + 6)
        + 64 * BitAt(bits, o + 7) + 128 * BitAt(bits, o + 8)

\* BigInt(value) throws a RangeError for a number that is no integer, and
\* writeBigUInt64LE one outside 0 .. 2^64-1
WriteBigUInt64Throws(value) == value.frac \/ value.neg \/ Len(value.mag) > 64

\* ToUint32: the value modulo 2^32, as 32 binary digits
ToUint32(value) ==
    LET low == [i \in 1..32 |-> BitAt(value.mag, i)]
    IN  IF value.neg
        THEN SubSeq(Increment([i \in 1..32 |-> 1 - low[i]]), 1, 32)
        ELSE low

\* the try/catch around writeBigUInt64LE: the eight bytes of the value, least
\* significant first, or in the catch branch its low 32 bits and four zero bytes
U64LE(value) ==
    IF WriteBigUInt64Throws(value)
    THEN [b \in 1..8 |-> IF b <= 4 THEN ByteAt(ToUint32(value), b) ELSE 0]
    ELSE [b \in 1..8 |-> ByteAt(value.mag, b)]

EncodeArg(arg) ==
    CASE arg.type = "u8" -> <<arg.value % 256>>
      [] arg.type = "u64" -> U64LE(arg.value)
      [] arg.type = "pubkey" -> arg.value

RECURSIVE EncodeArgs(_)
EncodeArgs(args) ==
    IF args = <<>> THEN <<>> ELSE EncodeArg(Head(args)) \o EncodeArgs(Tail(args))

\* createInstructionData: a zeroed buffer of 8 bytes plus the arguments' widths, the
\* discriminator copied to its start, the arguments written one after the other
createInstructionData(discriminator, args) ==
    [i \in 1..8 |-> IF i <= Len(discriminator) THEN discriminator[i] ELSE 0]
        \o EncodeArgs(args)

\* the Deposit payload for amountMicros, the number amount * 1000000
DepositData(entry, amountMicros) ==
    IF entry = "store"
    THEN createInstructionData(Discriminator("Deposit"),
                               <<[type |-> "u64", value |-> amountMicros]>>)
    ELSE Discriminator("Deposit") \o U64LE(amountMicros)

\* the payload each store builds for an operation and its argument
InstructionData(entry, operation, value) ==
    IF entry = "store"
    THEN CASE operation = "InitFactory" -> <<0>>
           [] operation = "Deposit" ->
                DepositData(entry, Integer(FALSE, FromNat(value * 1000000)))
           [] OTHER ->
                createInstructionData(Discriminator(operation),
                                      <<[type |-> "u64",
                                        value |-> Integer(FALSE, FromNat(value))]>>)
    ELSE CASE operation = "InitEscrow" -> Discriminator(operation)
           [] operation = "Deposit" ->
                DepositData(entry, Integer(FALSE, FromNat(value * 1000000)))
           [] OTHER -> Discriminator(operation) \o U64LE(Integer(FALSE, FromNat(value)))

BuildInstructionData(entry, operation, value) ==
    /\ entry = "storeV1" => operation # "InitFactory"
    /\ UNCHANGED adapter
    /\ calc' = Applied("instructionData", entry, <<operation, value>>,
                       InstructionData(entry, operation, value))
    /\ UNCHANGED programVars

\* the Deposit instruction createDeposit hands to the transaction executor: its
\* accounts and its data; authValue and stableValue are computed and never used
DepositInstruction(entry, escrow, depositor, counterparty, stable, authorization, amount) ==
    LET authValue == CASE authorization = "sender" -> 0
                       [] authorization = "receiver" -> 1
                       [] OTHER -> 2
        depositCount == 0
        data == InstructionData(entry, "Deposit", amount)
        depositRecord == findDepositRecordPDA(escrow, depositCount)
    IN  IF entry = "store"
        THEN [depositor |-> depositor, counterparty |-> counterparty, mints |-> Mints,
              escrow |-> escrow, depositorAta |-> <<depositor, stable>>,
              targetVault |-> <<"vault", escrow, stable>>, depositRecord |-> depositRecord,
              data |-> data]
        ELSE [escrow |-> escrow, depositor |-> depositor, counterparty |-> counterparty,
              mints |-> Mints, depositRecord |-> depositRecord, data |-> data]

BuildDepositInstruction(entry, stable, authorization, amount) ==
    /\ UNCHANGED adapter
    /\ calc' = Applied("createDeposit", entry, <<stable, authorization, amount>>,
                       DepositInstruction(entry, TheEscrow, Sender, Receiver, stable,
                                          authorization, amount))
    /\ UNCHANGED programVars

NextEncode ==
    \/ \E e \in {"store", "storeV1"}, o \in Operations, v \in 0..MaxArg :
          BuildInstructionData(e, o, v)
    \/ \E e \in {"store", "storeV1"}, m \in Mints, a \in Policies, v \in 0..MaxArg :
          BuildDepositInstruction(e, m, a, v)

SpecEncode == Init /\ [][NextEncode]_vars

\* ------------------------------------------------ u64 arguments
\* the argument values a caller hands over: 0, 1, 2^32-1, 2^32, 2^53, 2^53+1,
\* 2^64-1, 2^64 and -1
ArgumentValues ==
    {Integer(FALSE, <<>>), Integer(FALSE, <<1>>), Integer(FALSE, Ones(32)),
     Integer(FALSE, Zeros(32) \o <<1>>), Integer(FALSE, Zeros(53) \o <<1>>),
     Integer(FALSE, <<1>> \o Zeros(52) \o <<1>>), Integer(FALSE, Ones(64)),
     Integer(FALSE, Zeros(64) \o <<1>>), Integer(TRUE, <<1>>)}

U64Operations == Operations \ {"InitFactory"}

\* createInstructionData(discriminator, {type: 'u64', value}): value is a number
EncodeU64Argument(operation, value) ==
    /\ UNCHANGED adapter
    /\ calc' = Applied("createInstructionData", "helpers", <<operation, value>>,
                       createInstructionData(Discriminator(operation),
                                             <<[type |-> "u64", value |-> ToNumber(value)]>>))
    /\ UNCHANGED programVars

\* findDepositRecordPDA(escrowPda, depositIdx): the seeds it hashes, depositIdx a number
DepositRecordSeeds(escrowPda, depositIdx) ==
    <<"deposit", escrowPda, U64LE(ToNumber(depositIdx))>>

DeriveDepositRecord(escrowPda, depositIdx) ==
    /\ UNCHANGED adapter
    /\ calc' = Applied("findDepositRecordPDA", "helpers", <<escrowPda, depositIdx>>,
                       DepositRecordSeeds(escrowPda, depositIdx))
    /\ UNCHANGED programVars

\* writeUInt32LE(value, 0) into Buffer.alloc(8): four bytes, the rest stays zero
WriteUInt32LE(value) == [b \in 1..8 |-> IF b <= 4 THEN ByteAt(value.mag, b) ELSE 0]

\* the seeds createDeposit derives the address of the record it is about to create
\* from: both drafts use the constant depositCount = 0, whatever the escrow's counter is
CreateDepositRecordSeeds(entry, escrow, counter) ==
    LET depositCount == Integer(FALSE, FromNat(0))
    IN  IF entry = "store"
        THEN DepositRecordSeeds(escrow, depositCount)
        ELSE <<"deposit", escrow, WriteUInt32LE(depositCount)>>

\* the seeds cancelDeposit and requestWithdrawal derive the record of depositIdx from
AddressedRecordSeeds(entry, escrow, depositIdx) ==
    IF entry = "store"
    THEN DepositRecordSeeds(escrow, depositIdx)
    ELSE <<"deposit", escrow, U64LE(ToNumber(depositIdx))>>

DeriveForCreateDeposit(entry, escrow, counter) ==
    /\ UNCHANGED adapter
    /\ calc' = Applied("createDeposit", entry, <<escrow, counter>>,
                       CreateDepositRecordSeeds(entry, escrow, counter))
    /\ UNCHANGED programVars

DeriveForAddressedRecord(op, entry, escrow, depositIdx) ==
    /\ UNCHANGED adapter
    /\ calc' = Applied(op, entry, <<escrow, depositIdx>>,
                       AddressedRecordSeeds(entry, escrow, Integer(FALSE, FromNat(depositIdx))))
    /\ UNCHANGED programVars

\* the numbers amount * 1000000 can be: 0, 1000000, 2^32, 70000.5 and 2^32 + 0.5
AmountMicros ==
    {Integer(FALSE, <<>>), Integer(FALSE, FromNat(1000000)),
     Integer(FALSE, Zeros(32) \o <<1>>), NonInteger(FALSE, FromNat(70000)),
     NonInteger(FALSE, Zeros(32) \o <<1>>)}

\* createDeposit building its payload from the amount
EncodeDepositAmount(entry, amountMicros) ==
    /\ UNCHANGED adapter
    /\ calc' = Applied("depositData", entry, <<amountMicros>>,
                       DepositData(entry, amountMicros))
    /\ UNCHANGED programVars

NextCodec ==
    \/ \E e \in {"store", "storeV1"}, a \in AmountMicros : EncodeDepositAmount(e, a)
    \/ \E o \in U64Operations, v \in ArgumentValues : EncodeU64Argument(o, v)
    \/ \E v \in ArgumentValues : DeriveDepositRecord(TheEscrow, v)
    \/ \E e \in {"store", "storeV1"}, i \in 0..MaxArg : DeriveForCreateDeposit(e, TheEscrow, i)
    \/ \E o \in {"cancelDeposit", "requestWithdrawal"}, e \in {"store", "storeV1"},
          i \in 0..MaxArg : DeriveForAddressedRecord(o, e, TheEscrow, i)

SpecCodec == Init /\ [][NextCodec]_vars

NextInitRace ==
    \/ \E p \in Procs, s \in Parties, a \in BOOLEAN :
          \E r \in Parties \ {s} : ServerInitEscrowCheck(p, s, s, r, a)
    \/ \E p \in Procs, n \in BOOLEAN : ServerInitEscrowSubmit(p, n)

SpecInitRace == Init /\ [][NextInitRace]_vars

NextWithdrawRace ==
    \/ \E a \in Policies :
          ServerCreateDepositRead(1, Sender, Sender, Receiver, a, TRUE, TRUE, TRUE)
    \/ ServerCreateDepositSubmit(1, TRUE, TRUE, TRUE)
    \/ \E p \in Procs, u \in Parties, t \in 1..MaxRows : withdrawFundsCheck(p, u, t)
    \/ \E p \in Procs, d \in BOOLEAN : withdrawFundsCommit(p, d)

SpecWithdrawRace == Init /\ [][NextWithdrawRace]_vars

NextRace ==
    \/ \E p \in Procs, fo \in BOOLEAN, eo \in BOOLEAN :
          ServerCreateDepositRead(p, Sender, Sender, Receiver, "sender", TRUE, eo, fo)
    \/ \E p \in Procs, n \in BOOLEAN, d \in BOOLEAN : ServerCreateDepositSubmit(p, n, d, TRUE)

SpecRace == Init /\ [][NextRace]_vars

\* =========================================================== claims
StoreEntries == {"store", "storeV1"}
Submitted(opName) == \E k \in DOMAIN lastCall.sent : lastCall.sent[k] = opName

\* C3: createDeposit builds the deposit with the index equal to the escrow's
\* on-ledger deposit counter read during that call (the k-th deposit with k-1).
C3_IndexIsLedgerCounter ==
    (lastCall.op = "createDeposit" /\ Submitted("Deposit")) => lastCall.idx = lastCall.count

\* C5: a second initEscrow for an escrow that is already on the ledger reports
\* success as a no-op and submits no second creation.
C5_InitEscrowIdempotent ==
    (lastCall.op = "initEscrow" /\ lastCall.entry \in StoreEntries
        /\ lastCall.caller = lastCall.party /\ lastCall.existed)
    => (lastCall.success /\ ~Submitted("InitEscrow"))

\* C6: when the connected wallet is not depositorPublicKey, createDeposit of the
\* program store returns a failure and hands nothing to the transaction executor.
C6_WalletMismatchFailsBeforeSubmit ==
    (lastCall.op = "createDeposit" /\ lastCall.entry \in StoreEntries
        /\ lastCall.caller # lastCall.party)
    => (~lastCall.success /\ lastCall.sent = <<>> /\ ~lastCall.thrown)

C6_Witness ==
    /\ lastCall.op = "createDeposit" /\ lastCall.entry \in StoreEntries
    /\ lastCall.caller \in Keys /\ lastCall.caller # lastCall.party
    /\ lastCall.existed /\ lastCall.pre = "None"
    /\ ~lastCall.success /\ lastCall.sent = <<>>

\* C7: cancelDeposit of the program store submits a Cancel operation only when the
\* connected signer is the record's original depositor and the record is
\* PendingWithdrawal; otherwise it fails before any ledger submission.
C7_CancelPrechecked ==
    (lastCall.op = "cancelDeposit" /\ lastCall.entry \in StoreEntries /\ Submitted("Cancel"))
    => (lastCall.caller = lastCall.owner /\ lastCall.pre = "PendingWithdrawal")

\* C8: a cancelDeposit on a record that was already cancelled returns a failure of
\* kind InvalidStateTransition, and the record stays Cancelled.
C8_SecondCancelIsInvalidStateTransition ==
    (lastCall.op = "cancelDeposit" /\ lastCall.pre = "Cancelled")
    => /\ ~lastCall.success
       /\ lastCall.kind = "InvalidStateTransition"
       /\ depositRec[findDepositRecordPDA(lastCall.escrow, lastCall.idx)].state = "Cancelled"

\* C1: a deposit record moves out of PendingWithdrawal only to Completed, by a
\* successful release, or to Cancelled, by a successful cancel (Disputed is set
\* out-of-band), and never leaves Completed, Cancelled or Disputed.
C1_Lifecycle ==
    [][\A t \in DOMAIN dbRows :
        LET r == dbRows[t].sig
        IN  /\ depositRec'[r].state # depositRec[r].state
               => /\ depositRec[r].state = "PendingWithdrawal"
                  /\ depositRec'[r].state \in {"Completed", "Cancelled", "Disputed"}
            /\ dbRows'[t].state # dbRows[t].state
               => /\ dbRows[t].state = "PENDING"
                  /\ \/ dbRows'[t].state = "COMPLETED" /\ depositRec'[r].state = "Completed"
                     \/ dbRows'[t].state = "CANCELLED" /\ depositRec'[r].state = "Cancelled"]_vars

\* C2: no two deposit records of one escrow carry the same deposit index, on the
\* ledger or in the bookkeeping table.
C2_IndexUniquePerEscrow ==
    \A i \in DOMAIN dbRows, j \in DOMAIN dbRows :
        (i # j /\ dbRows[i].escrowId = dbRows[j].escrowId)
        => dbRows[i].depositIndex # dbRows[j].depositIndex

\* C4: nothing excludes a second createDeposit between a call's counter read and its
\* submission: while one call holds a counter value it has not yet submitted, another
\* call can read the same value and build its deposit for the same record address.
C4_NoMutualExclusion ==
    \A p \in Procs, q \in Procs :
        (/\ p # q
         /\ procs[p].pc = "submit"
         /\ procs[q].pc = "idle"
         /\ escrowAcct[TheEscrow].depositCount = procs[p].nextDepositIdx)
        => ENABLED (/\ ServerCreateDepositRead(q, Sender, Sender, Receiver, "sender",
                                               TRUE, TRUE, TRUE)
                    /\ procs'[q].pc = "submit"
                    /\ procs'[q].nextDepositIdx = procs[p].nextDepositIdx)

C4_Witness ==
    /\ procs[1].pc = "submit" /\ procs[2].pc = "submit"
    /\ procs[1].nextDepositIdx = procs[2].nextDepositIdx
    /\ procs[1].nextDepositIdx = escrowAcct[TheEscrow].depositCount
    /\ findDepositRecordPDA(findEscrowPDA(procs[1].depositor, procs[1].counterparty),
                            procs[1].nextDepositIdx)
       = findDepositRecordPDA(findEscrowPDA(procs[2].depositor, procs[2].counterparty),
                              procs[2].nextDepositIdx)

\* C9: a deposit whose policy is Both is never Completed, on the ledger or in the
\* bookkeeping, before the signatures of depositor and counterparty are both
\* collected, and a release with one party's signature is rejected.
C9_BothNeedsBothSignatures ==
    /\ \A t \in DOMAIN dbRows :
          (dbRows[t].policy = "DUAL"
             /\ (dbRows[t].state = "COMPLETED" \/ depositRec[dbRows[t].sig].state = "Completed"))
          => {dbRows[t].creator, dbRows[t].dest} \subseteq dbRows[t].signers
    /\ (lastCall.op = "requestWithdrawal" /\ lastCall.policy = "both") => ~lastCall.success

\* C10: who is authorized depends on (policy, role) alone and follows the matrix:
\* sender policy - the depositor; receiver policy - the counterparty; both - either
\* of the two; a third party never.
Role(caller, depositor, counterparty) ==
    IF caller = depositor THEN "sender"
    ELSE IF caller = counterparty THEN "receiver" ELSE "third-party"

Matrix(policy, role) ==
    CASE policy = "sender" -> role = "sender"
      [] policy = "receiver" -> role = "receiver"
      [] policy = "both" -> role \in {"sender", "receiver"}
      [] OTHER -> FALSE

C10_AuthorizationMatrix ==
    (lastCall.op = "withdrawFunds" /\ lastCall.success)
    => Matrix(lastCall.policy,
              Role(lastCall.caller, lastCall.owner,
                   CHOOSE c \in Parties : c # lastCall.owner))

\* C11: requestWithdrawal submits a Release only when the connected signer is the
\* given authorizedSigner and that signer satisfies the record's authorization
\* policy; a record becomes Completed only by a successful release.
C11_ReleasePrechecked ==
    [][/\ (lastCall'.op = "requestWithdrawal"
            /\ \E k \in DOMAIN lastCall'.sent : lastCall'.sent[k] = "Release")
           => /\ lastCall'.caller = lastCall'.party
              /\ Matrix(lastCall'.policy,
                        Role(lastCall'.caller, lastCall'.owner,
                             CHOOSE c \in Parties : c # lastCall'.owner))
       /\ \A r \in RecordPdas :
             (depositRec'[r].state = "Completed" /\ depositRec[r].state # "Completed")
             => (lastCall'.op = "requestWithdrawal" /\ lastCall'.success)]_vars

\* C12: the bookkeeping follows the ledger: a deposit's transaction status and
\* deposit record state are COMPLETED only once a Release of that deposit is
\* confirmed, so never while the ledger record is still PendingWithdrawal.
C12_BookkeepingFollowsLedger ==
    \A t \in DOMAIN dbRows :
        (dbRows[t].status = "COMPLETED" \/ dbRows[t].state = "COMPLETED")
        => /\ depositRec[dbRows[t].sig].state = "Completed"
           /\ depositRec[dbRows[t].sig].state # "PendingWithdrawal"

\* C13: initEscrow, createDeposit, cancelDeposit and requestWithdrawal return, on
\* every entry point and for every outcome, either success with a signature or
\* failure with an error; no exception escapes to the caller.
C13_NoExceptionEscapes ==
    (lastCall.op \in {"initEscrow", "createDeposit", "cancelDeposit", "requestWithdrawal"})
    => /\ ~lastCall.thrown
       /\ lastCall.success <=> (lastCall.kind = "ok")

\* C14: no write operation substitutes a default value and carries on when a call it
\* depends on failed: a createDeposit whose read of the escrow's deposit counter
\* failed ends in a failure instead of going on to build and submit a deposit.
C14_FailedCounterReadSurfaces ==
    [][\A p \in Procs, a \in Policies :
          ServerCreateDepositRead(p, Sender, Sender, Receiver, a, TRUE, TRUE, FALSE)
          => (procs'[p].pc = "idle" /\ lastCall'.op = "createDeposit" /\ ~lastCall'.success)]_vars

\* the ledger operation each client operation submits
OperationOf(op) ==
    CASE op = "initEscrow" -> "InitEscrow"
      [] op = "createDeposit" -> "Deposit"
      [] op = "cancelDeposit" -> "Cancel"
      [] op = "requestWithdrawal" -> "Release"
      [] OTHER -> "none"

\* C15: one invocation of initEscrow, createDeposit, cancelDeposit or
\* requestWithdrawal hands its ledger operation to the executor at most once,
\* whether the submission succeeds or fails.
C15_SubmittedAtMostOnce ==
    Cardinality({k \in DOMAIN lastCall.sent : lastCall.sent[k] = OperationOf(lastCall.op)}) <= 1

C15_Witness ==
    /\ lastCall.op \in {"initEscrow", "createDeposit"}
    /\ lastCall.entry = "store"
    /\ ~lastCall.success
    /\ Cardinality({k \in DOMAIN lastCall.sent : lastCall.sent[k] = OperationOf(lastCall.op)}) = 1

\* C16: with no escrow for (S, R), submitDeposit first initialises the escrow and
\* then runs createDeposit against that escrow's address: once its InitEscrow is
\* accepted the flow goes on to the deposit, and an accepted Deposit of the flow
\* leaves the record of index 0 in PendingWithdrawal.
C16_FlowInitThenDeposit ==
    [][/\ (/\ depositStore.pc = "escrow"
           /\ lastCall.op = "initEscrow" /\ lastCall.entry = "storeV1" /\ lastCall.success
           /\ depositStore' # depositStore)
          => (/\ depositStore'.pc = "deposit"
              /\ depositStore'.escrowPublicKey = lastCall.escrow)
       /\ (/\ depositStore.pc = "deposit"
           /\ lastCall'.op = "createDeposit" /\ lastCall'.success
           /\ lastCall' # lastCall)
          => (/\ lastCall'.idx = 0
              /\ depositRec'[findDepositRecordPDA(lastCall'.escrow, 0)].state
                    = "PendingWithdrawal")]_vars

\* C17: initEscrow submits InitEscrow only when the four associated token accounts
\* of sender and receiver exist, creating the missing ones first; when that
\* creation fails, initEscrow fails and InitEscrow is never submitted.
C17_TokenAccountsBeforeInitEscrow ==
    (lastCall.op = "initEscrow")
    => LET present == AllAtas(lastCall.escrow[2], lastCall.escrow[3]) \subseteq atas
       IN  /\ Submitted("InitEscrow") => present
           /\ (Submitted("CreateAta") /\ ~present)
              => (~lastCall.success /\ ~Submitted("InitEscrow"))

\* C18: initEscrow with the same (sender, receiver) and two different seeds
\* addresses two distinct escrows.
C18_SeedsAddressDistinctEscrows ==
    (/\ calc[1].fn = "initEscrow" /\ calc[2].fn = "initEscrow"
     /\ calc[1].entry = calc[2].entry
     /\ calc[1].args[1] = calc[2].args[1] /\ calc[1].args[2] = calc[2].args[2]
     /\ calc[1].args[3] # calc[2].args[3])
    => calc[1].out # calc[2].out

ArgumentWidth(operation) == IF operation = "InitFactory" THEN 0 ELSE 8

\* C20: every instruction payload is the operation's 8-byte discriminator followed by
\* its arguments without padding: 8 bytes for InitFactory, 16 for InitEscrow(seed),
\* Deposit(amount), Cancel(index) and Release(index).
C20_PayloadLength ==
    (calc[2].fn = "instructionData")
    => LET operation == calc[2].args[1]
           data == calc[2].out
       IN  /\ Len(data) = 8 + ArgumentWidth(operation)
           /\ operation # "InitFactory" => SubSeq(data, 1, 8) = Discriminator(operation)

\* the inverse little-endian decoder: the operation whose discriminator heads the
\* payload and the u64 read from the eight bytes after it
DecodeInstruction(data) ==
    [operation |-> CHOOSE o \in U64Operations : Discriminator(o) = SubSeq(data, 1, 8),
     value |-> Integer(FALSE, Canonical([i \in 1..64 |->
                   (data[9 + ((i - 1) \div 8)] \div (2 ^ ((i - 1) % 8))) % 2]))]

InU64Range(value) == ~value.neg /\ Len(value.mag) <= 64

\* C21: for every operation and every u64 argument value in 0..2^64-1, decoding the
\* bytes of createInstructionData gives back the operation and the argument value.
C21_EncodingRoundTrip ==
    (calc[2].fn = "createInstructionData" /\ InU64Range(calc[2].args[2]))
    => DecodeInstruction(calc[2].out)
         = [operation |-> calc[2].args[1], value |-> calc[2].args[2]]

\* C22: encoding a u64 argument (instruction data and the deposit-index seed) rejects
\* a negative value and a value above 2^64-1 with an error and emits no bytes for it.
C22_OutOfRangeRejected ==
    (calc[2].fn \in {"createInstructionData", "findDepositRecordPDA"}
        /\ ~InU64Range(calc[2].args[2]))
    => calc[2].out = "RangeError"

\* C23: when two initEscrow calls for the same (sender, receiver) run concurrently,
\* under every interleaving of their existence checks and their submissions both
\* report success: a submission that reaches the ledger ends in success, the later
\* one as a no-op.
C23_ConcurrentInitEscrowBothSucceed ==
    [][\A p \in Procs : ServerInitEscrowSubmit(p, TRUE) => lastCall'.success]_vars

\* C24: the server createDeposit uses index 0 only when the escrow's on-ledger
\* deposit counter is 0: a request goes on to build its Deposit for index 0 only if
\* the counter it has just read is 0, whatever happened to the read.
C24_IndexZeroOnlyForEmptyEscrow ==
    [][\A p \in Procs :
          (procs[p].pc = "idle" /\ procs'[p].pc = "submit" /\ procs'[p].nextDepositIdx = 0)
          => escrowAcct'[findEscrowPDA(procs'[p].depositor,
                                       procs'[p].counterparty)].depositCount = 0]_vars

\* C25: the result of the server createDeposit reflects the ledger outcome: it reports
\* a failure only if the call confirmed no deposit on the ledger; a failed bookkeeping
\* write or notification after the confirmation does not make it a failure.
C25_ResultReflectsLedger ==
    [][\A p \in Procs :
          (procs[p].pc = "submit" /\ procs'[p].pc = "idle" /\ ~lastCall'.success)
          => UNCHANGED <<escrowAcct, depositRec>>]_vars

\* C26: for every deposit, the depositIndex stored in its bookkeeping record equals
\* the index its on-ledger deposit-record address was derived with.
C26_StoredIndexIsLedgerIndex ==
    \A i \in DOMAIN dbRows : dbRows[i].depositIndex = RowIdx(i)

\* C27: the escrow address a deposit is made against is the address derived for the
\* ordered pair (depositor, counterparty) of that deposit: submitDeposit never hands
\* createDeposit the escrow found for the reversed pair.
C27_DepositAgainstOwnOrdering ==
    (depositStore.pc = "deposit" /\ lastCall.op = "createDeposit" /\ lastCall.entry = "storeV1")
    => lastCall.escrow = findEscrowPDA(depositStore.sender, depositStore.receiver)

\* C28: the authorization policy chosen at deposit creation reaches the ledger: two
\* client createDeposit calls that differ only in the authorization argument submit
\* different Deposit operations.
C28_AuthorizationReachesLedger ==
    (/\ calc[1].fn = "createDeposit" /\ calc[2].fn = "createDeposit"
     /\ calc[1].entry = calc[2].entry
     /\ calc[1].args[1] = calc[2].args[1] /\ calc[1].args[3] = calc[2].args[3]
     /\ calc[1].args[2] # calc[2].args[2])
    => calc[1].out # calc[2].out

\* C29: the authorization policy of a deposit survives bookkeeping: for each of
\* sender, receiver and both, the policy read back from the stored record and shown
\* for the transaction is the policy the deposit was created with.
C29_PolicySurvivesBookkeeping ==
    (lastCall.op = "createDeposit" /\ lastCall.entry = "server" /\ lastCall.success)
    => LET row == dbRows[Len(dbRows)]
       IN  TransactionCardAuthorization(row.policy) = depositRec[row.sig].policy

\* C30: for every deposit index i, the deposit-record address createDeposit derives
\* for the record it creates as the deposit of index i equals the address that
\* cancelDeposit and requestWithdrawal derive for index i, in every draft.
C30_RecordAddressAgrees ==
    (/\ calc[1].fn = "createDeposit" /\ calc[1].entry \in {"store", "storeV1"}
     /\ calc[2].fn \in {"cancelDeposit", "requestWithdrawal"}
     /\ calc[2].entry = calc[1].entry
     /\ calc[2].args = calc[1].args)
    => calc[2].out = calc[1].out

\* C31: the u64 written into the Deposit payload is the amount in minor units,
\* amount * 10^6: whether the product is an exact integer or not, and also when it is
\* 2^32 or more, the payload carries its whole units and not their low 32 bits.
C31_AmountNotReduced ==
    (calc[2].fn = "depositData" /\ InU64Range(calc[2].args[1]))
    => DecodeInstruction(calc[2].out).value.mag = calc[2].args[1].mag

\* C32: getEscrowStats returns non-null stats for every escrow address produced by
\* the escrow derivation whose account exists on the ledger.
C32_StatsForDerivedEscrow ==
    (/\ lastCall.op = "getEscrowStats"
     /\ store.program
     /\ lastCall.escrow \in EscrowPdas
     /\ lastCall.existed)
    => lastCall.success

\* C33: initEscrow submits InitEscrow only when the connected wallet is the sender
\* named in the call; with any other connected wallet it returns a failure and
\* submits nothing, neither token-account creation nor InitEscrow.
C33_InitEscrowOnlyBySender ==
    (/\ lastCall.op = "initEscrow" /\ lastCall.entry \in StoreEntries
     /\ lastCall.caller # NoKey
     /\ lastCall.caller # lastCall.party)
    => (~lastCall.success /\ lastCall.sent = <<>>)

\* the write operations of the program store
StoreWriteOperations ==
    {"initFactory", "initEscrow", "createDeposit", "cancelDeposit", "requestWithdrawal"}

\* C34: while the program store is uninitialised or was initialised without a wallet
\* (no connected wallet at the time of the call), every call to initFactory,
\* initEscrow, createDeposit, cancelDeposit and requestWithdrawal returns
\* success: false and hands no transaction to the executor.
C34_NoWalletNoSubmission ==
    (/\ lastCall.entry = "store"
     /\ lastCall.op \in StoreWriteOperations
     /\ lastCall.caller = NoKey)
    => (~lastCall.success /\ lastCall.sent = <<>>)

C34_Witness ==
    /\ lastCall.entry = "store"
    /\ lastCall.op = "requestWithdrawal"
    /\ lastCall.caller = NoKey
    /\ store.program
    /\ escrowAcct[TheEscrow].exists
    /\ ~lastCall.success

C36_WithdrawnAtMostOnce ==
    \A t \in DOMAIN dbRows : dbRows[t].history <= 1

\* C37: within one submitDeposit run the ledger createDeposit is called only after the
\* escrow is known to exist (reported by startDeposit, or created by an initEscrow of
\* this run that succeeded), the bookkeeping finalisation is called only after
\* createDeposit returned success, and after a failed initEscrow or createDeposit no
\* later step of the run is executed.
C37_StepsOrdered ==
    [][/\ (/\ depositStore.pc = "deposit"
           /\ lastCall' # lastCall /\ lastCall'.op = "createDeposit")
          => (/\ lastCall.op = "startDeposit" => lastCall.escrow # <<>>
              /\ lastCall.op = "initEscrow" => lastCall.success)
       /\ (/\ depositStore.pc = "finalize"
           /\ lastCall' # lastCall /\ lastCall'.op = "createDepositRecord")
          => (lastCall.op = "createDeposit" /\ lastCall.success)
       /\ (/\ depositStore.pc \in {"escrow", "deposit"}
           /\ lastCall.op \in {"initEscrow", "createDeposit"} /\ ~lastCall.success
           /\ depositStore' # depositStore)
          => depositStore'.pc = "idle"]_vars

\* C38: submitDeposit holds isSubmitting true from its entry on and has it false after
\* every exit (success, invitation, thrown error); step becomes 4 only together with a
\* transactionResult whose success is true, and a run that fails stores a
\* transactionResult with success false and rethrows.
C38_SubmittingFlagAndResult ==
    [][/\ depositStore'.pc # "idle" => depositStore'.isSubmitting
       /\ (depositStore' # depositStore /\ depositStore'.pc = "idle")
          => (/\ ~depositStore'.isSubmitting
              /\ depositStore'.result \in {"success", "invited", "failure"}
              /\ depositStore'.thrown <=> depositStore'.result = "failure"
              /\ depositStore'.step # depositStore.step
                 => \/ depositStore'.step = 4 /\ depositStore'.result \in {"success", "invited"}
                    \/ depositStore'.step = 1 /\ depositStore'.result = "failure")]_vars

\* a run whose bookkeeping call failed has ended on the invitation path: step 4, a
\* successful result, isSubmitting cleared
C38_Witness ==
    /\ depositStore.pc = "idle" /\ ~depositStore.isSubmitting
    /\ depositStore.result = "invited" /\ depositStore.step = 4
    /\ lastCall.op = "createDepositRecord" /\ ~lastCall.success

\* the adapter as its constructor accepts it: publicKey and keypair are both optional
InitAdapter ==
    /\ escrowAcct = [e \in EscrowPdas |-> [exists |-> FALSE, depositCount |-> 0]]
    /\ depositRec = [r \in RecordPdas |-> NoRecord]
    /\ atas = {}
    /\ dbRows = <<>>
    /\ store = [program |-> FALSE, wallet |-> NoKey]
    /\ procs = [p \in Procs |-> IdleProc]
    /\ lastCall = NoCall
    /\ dbEscrows = {}
    /\ depositStore = IdleDepositStore
    /\ calc = <<NoApp, NoApp>>
    /\ \E publicKey \in Keys \cup {NoKey}, keypair \in Keypairs \cup {NoKeypair} :
          adapter = NewKeypairWalletAdapter(publicKey, keypair)

NextAdapter ==
    \/ \E k \in Keypairs : setKeypair(k)
    \/ connect
    \/ disconnect
    \/ \E v \in BOOLEAN : signTransaction(v)
    \/ \E v \in BOOLEAN : signAllTransactions(v)
    \/ signMessage

SpecAdapter == InitAdapter /\ [][NextAdapter]_vars

====
